---- MODULE Spec2Model ----
(***************************************************************************)
(* Model of the Generation-Retry-Tool-Dispatch loop of the agent           *)
(* (Agent.process_request and its helpers) together with the conversation  *)
(* manager it writes to.  Two drafts of the Agent class live in the        *)
(* repository, ai_agent/src/agent.py and src/agent.py; the variable impl   *)
(* says which one is running.  Definitions without suffix follow           *)
(* ai_agent/src/agent.py, definitions ending in _src follow src/agent.py.  *)
(*                                                                         *)
(* Strings are sequences of symbols.  User inputs, message contents and    *)
(* Gateway texts are sequences over {"a", " "}; a fixed literal of the     *)
(* code is one symbol, and an f-string is the concatenation of its pieces. *)
(*                                                                         *)
(* Spec is the request loop of both drafts, SpecAI that of the             *)
(* ai_agent/src/agent.py draft alone.  SpecNorm and SpecNormSrc run the    *)
(* first step of a request on sessions of every shape.  SpecConv is the    *)
(* ConversationManager on its own, called directly; there a session file   *)
(* is the text json.dump writes, with contents that hold quotes and        *)
(* backslashes.                                                            *)
(***************************************************************************)
EXTENDS Integers, Sequences, FiniteSets, TLC

\* ------------------------------------------------------------------ bounds
MaxIterations == 2      \* largest config.max_iterations explored
MaxRetry      == 2      \* largest config.retry_attempts explored
MaxRequests   == 1      \* process_request calls per behaviour
MaxGatewayCalls == 4    \* Gateway calls per behaviour, all requests together

\* ------------------------------------------------------- program constants
ContextWindow == 10     \* get_context(max_messages=10)
None          == -1     \* a missing (None) token count

Impls == {"ai_agent", "src"}

Whitespace == {" "}

Fallback == <<"I couldn't generate a complete response. Please try rephrasing your request.">>

\* -------------------------------------------------------------- inputs
UserInputs == {<<>>, <<" ">>, <<" ", "a">>}

GatewayErrors == {"timeout", "invalid request"}

SaveOutcomes == {"ok", "open_fails", "dump_fails"}

SaveError == "cannot write session file"

\* Tool calls as the Gateway emits them; outcome is what the tool does
\* when it is invoked (it is never invoked for an unknown name).
Call(n, o) == [name |-> n, outcome |-> o, args |-> "dict"]

\* a tool call whose args the Gateway left out: function_call.args is None
NoArgsCall(n, o) == [name |-> n, outcome |-> o, args |-> "None"]

Usage(p, c) == [present |-> TRUE, prompt_token_count |-> p, candidates_token_count |-> c]

NoUsage == [present |-> FALSE, prompt_token_count |-> None, candidates_token_count |-> None]

Response(calls, text, usage) == [function_calls |-> calls, text |-> text, usage_metadata |-> usage]

Responses ==
    { Response(<<>>, <<"a">>, Usage(1, 2)),
      Response(<<>>, <<" ">>, NoUsage),
      Response(<<>>, <<>>, NoUsage),
      Response(<<Call("list_files", "ok")>>, <<>>, Usage(1, 2)),
      Response(<<Call("list_files", "raise"), Call("nope", "ok"), Call("list_files", "ok")>>,
               <<"a">>, NoUsage),
      Response(<<Call("list_files", "ok")>>, <<"a">>, Usage(None, None)) }

NoResponse == Response(<<>>, <<>>, NoUsage)

\* ------------------------------------------------------------ strings
RECURSIVE lstrip(_)
lstrip(s) == IF s # <<>> /\ Head(s) \in Whitespace THEN lstrip(Tail(s)) ELSE s

RECURSIVE rstrip(_)
rstrip(s) == IF s # <<>> /\ s[Len(s)] \in Whitespace THEN rstrip(SubSeq(s, 1, Len(s) - 1)) ELSE s

\* str.strip()
strip(s) == rstrip(lstrip(s))

\* ------------------------------------------------------------ messages
\* types.Part, one shape for the three kinds of part
TextPart(t) == [kind |-> "text", text |-> t, name |-> "", key |-> "", value |-> <<>>]

FunctionCallPart(n) == [kind |-> "function_call", text |-> <<>>, name |-> n, key |-> "", value |-> <<>>]

FunctionResponsePart(n, k, v) == [kind |-> "function_response", text |-> <<>>, name |-> n, key |-> k, value |-> v]

\* types.Content
Content(r, ps) == [role |-> r, parts |-> ps]

\* conversation.Message (role and content; timestamp, id, metadata left out)
Message(r, c) == [role |-> r, content |-> c]

\* ------------------------------------------------- ConversationManager
\* mutant: the whole session is the window
get_context_window_all(msgs, max_messages) == msgs

\* ConversationSession.get_context_window: self.messages[-max_messages:]
get_context_window(msgs, max_messages) ==
    IF max_messages = 0 \/ Len(msgs) <= max_messages
    THEN msgs
    ELSE SubSeq(msgs, Len(msgs) - max_messages + 1, Len(msgs))

RECURSIVE gemini_messages(_, _)
gemini_messages(ctx, acc) ==
    IF ctx = <<>> THEN acc
    ELSE LET msg == Head(ctx)
         IN  gemini_messages(Tail(ctx),
                 IF msg.role \in {"user", "model"}
                 THEN Append(acc, Content(msg.role, <<TextPart(msg.content)>>))
                 ELSE acc)

\* ConversationManager.get_context; has_current is "self.current_session" being set
get_context(has_current, msgs, max_messages) ==
    IF ~has_current THEN <<>>
    ELSE gemini_messages(get_context_window(msgs, max_messages), <<>>)

\* ----------------------------------------------------- Message Normalizer
\* the test "part carries content" of _prepare_messages (lines 245-248, 319-320)
has_content(part) ==
    \/ part.kind = "text" /\ part.text # <<>> /\ strip(part.text) # <<>>
    \/ part.kind = "function_response"

\* first loop of _prepare_messages over the types.Content objects of
\* get_context (it returns nothing else, so the dict and plain-object
\* branches of the loop have no input)
RECURSIVE convert_context(_, _)
convert_context(ctx, acc) ==
    IF ctx = <<>> THEN acc
    ELSE LET msg == Head(ctx)
             role == IF msg.role = "assistant" THEN "model" ELSE msg.role
             valid_parts == SelectSeq(msg.parts, has_content)
         IN  convert_context(Tail(ctx),
                 IF msg.role \notin {"assistant", "user"} THEN acc
                 ELSE IF msg.parts # <<>> /\ valid_parts # <<>>
                      THEN Append(acc, Content(role, valid_parts))
                      ELSE acc)

\* final validation loop of _prepare_messages
validated(msg) == msg.parts # <<>> /\ \E i \in 1..Len(msg.parts) : has_content(msg.parts[i])

\* mutant: the history and the input are forwarded as they are
_prepare_messages_unvalidated(enable_history, context_messages, user_input) ==
    Append(IF enable_history THEN context_messages ELSE <<>>,
           Content("user", <<TextPart(user_input)>>))

\* Agent._prepare_messages of ai_agent/src/agent.py
_prepare_messages(enable_history, context_messages, user_input) ==
    LET history == IF enable_history THEN convert_context(context_messages, <<>>) ELSE <<>>
        user_input_stripped == strip(user_input)
        messages == Append(history,
                        Content("user", <<TextPart(IF user_input_stripped # <<>>
                                                   THEN user_input_stripped
                                                   ELSE <<"Hello">>)>>))
        validated_messages == SelectSeq(messages, validated)
    IN  IF validated_messages = <<>>
        THEN <<Content("user", <<TextPart(IF user_input_stripped # <<>>
                                          THEN user_input_stripped
                                          ELSE <<"Hello">>)>>)>>
        ELSE validated_messages

\* Agent._prepare_messages of src/agent.py
_prepare_messages_src(enable_history, context_messages, user_input) ==
    Append(IF enable_history THEN context_messages ELSE <<>>,
           Content("user", <<TextPart(user_input)>>))

\* ---------------------------------------------------------- Tool Registry
\* keys of Agent.tool_functions (the two the Gateway responses name)
tool_functions == {"read_file", "list_files"}

\* what the tool named by the call returns or raises when it is invoked
ToolValue(call) == "value of " \o call.name

ToolError(call) == call.name \o " raised"

\* mutant: the error of a tool that raised is not reported
function_response_silent(call) ==
    IF call.name \in tool_functions
    THEN FunctionResponsePart(call.name, "result", <<"str(", ToolValue(call), ")">>)
    ELSE FunctionResponsePart(call.name, "error", <<"Function ", call.name, " not found.">>)

\* body of the loop of _handle_function_calls, ai_agent/src/agent.py
function_response(call) ==
    IF call.name \in tool_functions
    THEN IF call.outcome = "ok"
         THEN FunctionResponsePart(call.name, "result", <<"str(", ToolValue(call), ")">>)
         ELSE FunctionResponsePart(call.name, "error",
                  <<"Error executing function ", call.name, ": ", ToolError(call)>>)
    ELSE FunctionResponsePart(call.name, "error", <<"Function ", call.name, " not found.">>)

\* body of the loop of _handle_function_calls, src/agent.py
function_response_src(call) ==
    IF call.name \in tool_functions
    THEN IF call.outcome = "ok"
         THEN FunctionResponsePart(call.name, "result", <<ToolValue(call)>>)
         ELSE FunctionResponsePart(call.name, "error", <<ToolError(call)>>)
    ELSE FunctionResponsePart(call.name, "error", <<"Unknown function: ", call.name>>)

\* mutant: the first call that fails ends the batch
RECURSIVE handle_loop_abort(_, _, _)
handle_loop_abort(variant, function_calls, acc) ==
    IF function_calls = <<>> THEN acc
    ELSE LET call == Head(function_calls)
             part == IF variant = "ai_agent" THEN function_response(call)
                     ELSE function_response_src(call)
             next == [function_responses |-> Append(acc.function_responses, part),
                      function_calls |-> acc.function_calls + 1]
         IN  IF part.key = "error" THEN next
             ELSE handle_loop_abort(variant, Tail(function_calls), next)

\* the loop of _handle_function_calls: one metric increment and one
\* response part per call; acc is (function_responses, metrics["function_calls"])
RECURSIVE handle_loop(_, _, _)
handle_loop(variant, function_calls, acc) ==
    IF function_calls = <<>> THEN acc
    ELSE LET call == Head(function_calls)
         IN  handle_loop(variant, Tail(function_calls),
                 [function_responses |->
                      Append(acc.function_responses,
                             IF variant = "ai_agent" THEN function_response(call)
                             ELSE function_response_src(call)),
                  function_calls |-> acc.function_calls + 1])

\* the log_function_call calls of _handle_function_calls: src/agent.py
\* logs each call of a known tool that returned, ai_agent/src/agent.py none
logged_function_calls(variant, function_calls) ==
    IF variant = "src"
    THEN Len(SelectSeq(function_calls,
                       LAMBDA c : c.name \in tool_functions /\ c.outcome = "ok"))
    ELSE 0

\* dict(function_call.args) of a call without args
ArgsError == "'NoneType' object is not iterable"

\* the first call of the batch at which dict(function_call.args) raises,
\* 0 when it raises at none
RECURSIVE args_error_at(_)
args_error_at(function_calls) ==
    IF function_calls = <<>> THEN 0
    ELSE IF Head(function_calls).args = "None" THEN 1
    ELSE IF args_error_at(Tail(function_calls)) = 0 THEN 0
    ELSE 1 + args_error_at(Tail(function_calls))

\* mutant: only the calls of known tools are counted
_handle_function_calls_known(variant, function_calls, metric) ==
    [function_responses |->
         handle_loop(variant, function_calls,
                     [function_responses |-> <<>>, function_calls |-> metric]).function_responses,
     function_calls |->
         metric + Len(SelectSeq(function_calls, LAMBDA c : c.name \in tool_functions))]

\* Agent._handle_function_calls (both drafts): the response parts and the
\* new value of metrics["function_calls"]
_handle_function_calls(variant, function_calls, metric) ==
    handle_loop(variant, function_calls, [function_responses |-> <<>>, function_calls |-> metric])

\* mutant: the new message replaces the list instead of joining it
add_message_replace(sess, cur, role, content) ==
    [sess EXCEPT ![cur] = <<Message(role, content)>>]

\* mutant: every session shares the one message list
add_message_shared(sess, cur, role, content) ==
    [i \in DOMAIN sess |-> Append(sess[i], Message(role, content))]

\* ConversationManager.add_message on the current session cur
add_message(sess, cur, role, content) ==
    [sess EXCEPT ![cur] = Append(@, Message(role, content))]

\* ----------------------------------------------------- session files
\* the two characters json.dump escapes inside a string
Quote == "\""

Backslash == "\\"

\* the body of a JSON string: a backslash before each quote and backslash
RECURSIVE escape(_)
escape(s) ==
    IF s = <<>> THEN <<>>
    ELSE (IF Head(s) \in {Quote, Backslash} THEN <<Backslash, Head(s)>> ELSE <<Head(s)>>)
         \o escape(Tail(s))

json_string(s) == <<Quote>> \o escape(s) \o <<Quote>>

\* mutant: the role is written where the content belongs
message_to_dict_role(msg) == [role |-> <<msg.role>>, content |-> <<msg.role>>]

\* Message.to_dict and ConversationSession.to_dict (role, content and
\* session_id; timestamps, metadata and message_id left out)
message_to_dict(msg) == [role |-> <<msg.role>>, content |-> msg.content]

RECURSIVE messages_to_dict(_)
messages_to_dict(msgs) ==
    IF msgs = <<>> THEN <<>>
    ELSE <<message_to_dict(Head(msgs))>> \o messages_to_dict(Tail(msgs))

to_dict(id, msgs) == [session_id |-> <<ToString(id)>>, messages |-> messages_to_dict(msgs)]

\* json.dump: the text of the file, one symbol per character of a string
\* and one per piece of punctuation
RECURSIVE dump_messages(_)
dump_messages(ds) ==
    IF ds = <<>> THEN <<>>
    ELSE <<"{", "role:">> \o json_string(Head(ds).role)
         \o <<"content:">> \o json_string(Head(ds).content) \o <<"}">>
         \o dump_messages(Tail(ds))

json_dump(d) ==
    <<"{", "session_id:">> \o json_string(d.session_id)
    \o <<"messages:", "[">> \o dump_messages(d.messages) \o <<"]", "}">>

\* json.load: the symbol at position i, "" past the end of the text
At(t, i) == IF i \in 1..Len(t) THEN t[i] ELSE ""

\* reads a string whose opening quote stands before position i
RECURSIVE read_string(_, _, _)
read_string(t, i, acc) ==
    IF i > Len(t) THEN [ok |-> FALSE, value |-> acc, next |-> i]
    ELSE IF t[i] = Quote THEN [ok |-> TRUE, value |-> acc, next |-> i + 1]
    ELSE IF t[i] = Backslash
         THEN IF i + 1 > Len(t) THEN [ok |-> FALSE, value |-> acc, next |-> i]
              ELSE read_string(t, i + 2, Append(acc, t[i + 1]))
         ELSE read_string(t, i + 1, Append(acc, t[i]))

\* reads the message objects up to the closing bracket
RECURSIVE read_messages(_, _, _)
read_messages(t, i, acc) ==
    IF At(t, i) = "]" THEN [ok |-> TRUE, value |-> acc, next |-> i + 1]
    ELSE IF At(t, i) # "{" \/ At(t, i + 1) # "role:" \/ At(t, i + 2) # Quote
         THEN [ok |-> FALSE, value |-> acc, next |-> i]
         ELSE LET r == read_string(t, i + 3, <<>>)
                  c == read_string(t, r.next + 2, <<>>)
              IN  IF ~r.ok \/ At(t, r.next) # "content:" \/ At(t, r.next + 1) # Quote
                     \/ ~c.ok \/ At(t, c.next) # "}"
                  THEN [ok |-> FALSE, value |-> acc, next |-> i]
                  ELSE read_messages(t, c.next + 1,
                           Append(acc, [role |-> r.value, content |-> c.value]))

NoDict == [session_id |-> <<>>, messages |-> <<>>]

\* json.load of the text of a session file: the dict, or ok = FALSE when
\* the text is not the text of a session (json.load or from_dict raises)
json_load(t) ==
    LET id == read_string(t, 4, <<>>)
        ms == read_messages(t, id.next + 2, <<>>)
    IN  IF At(t, 1) = "{" /\ At(t, 2) = "session_id:" /\ At(t, 3) = Quote /\ id.ok
           /\ At(t, id.next) = "messages:" /\ At(t, id.next + 1) = "["
           /\ ms.ok /\ At(t, ms.next) = "}" /\ ms.next = Len(t)
        THEN [ok |-> TRUE, data |-> [session_id |-> id.value, messages |-> ms.value]]
        ELSE [ok |-> FALSE, data |-> NoDict]

\* Message.from_dict: cls(**data)
RECURSIVE messages_from_dict(_)
messages_from_dict(ds) ==
    IF ds = <<>> THEN <<>>
    ELSE <<Message(Head(ds).role[1], Head(ds).content)>> \o messages_from_dict(Tail(ds))

\* ConversationSession.from_dict
from_dict(data) == [session_id |-> data.session_id, messages |-> messages_from_dict(data.messages)]

\* a session file: absent, written to the end ("saved"), or cut short
\* because json.dump raised after open() had emptied the file ("corrupt")
NotSaved == [state |-> "absent", text |-> <<>>]

\* mutant: the file is opened for appending
save_session_append(st, cur, msgs, outcome) ==
    IF outcome = "ok"
    THEN [st EXCEPT ![cur] = [state |-> "saved", text |-> @.text \o json_dump(to_dict(cur, msgs))]]
    ELSE IF outcome = "dump_fails" THEN [st EXCEPT ![cur] = [state |-> "corrupt", text |-> <<>>]]
    ELSE st

\* ConversationManager.save_session on session cur with messages msgs;
\* outcome says how the write ends: the whole session overwrites the file,
\* open() fails and the file stays as it was, or json.dump fails
save_session(st, cur, msgs, outcome) ==
    IF outcome = "ok"
    THEN [st EXCEPT ![cur] = [state |-> "saved", text |-> json_dump(to_dict(cur, msgs))]]
    ELSE IF outcome = "dump_fails" THEN [st EXCEPT ![cur] = [state |-> "corrupt", text |-> <<>>]]
    ELSE st

\* the session a manager started on the same history_dir loads for id
\* (get_session from disk, or _load_recent_sessions): None when the file is
\* absent or cannot be read
NoSession == [found |-> FALSE, session_id |-> <<>>, messages |-> <<>>]

load_session(st, id) ==
    IF id \notin DOMAIN st \/ st[id].state # "saved" \/ ~json_load(st[id].text).ok
    THEN NoSession
    ELSE LET session == from_dict(json_load(st[id].text).data)
         IN  [found |-> TRUE, session_id |-> session.session_id, messages |-> session.messages]

\* ------------------------------------------------------------- metrics
TypeError == "unsupported operand type(s) for +: 'int' and 'NoneType'"

\* ai_agent/src/agent.py: prompt_token_count or 0 + candidates_token_count or 0,
\* which Python reads as prompt or ((0 + candidates) or 0)
token_count(u) ==
    IF u.prompt_token_count # None /\ u.prompt_token_count # 0
    THEN [raises |-> FALSE, value |-> u.prompt_token_count]
    ELSE IF u.candidates_token_count = None
         THEN [raises |-> TRUE, value |-> 0]
         ELSE [raises |-> FALSE, value |-> u.candidates_token_count]

\* src/agent.py: prompt_token_count + candidates_token_count
token_count_src(u) ==
    IF u.prompt_token_count = None \/ u.candidates_token_count = None
    THEN [raises |-> TRUE, value |-> 0]
    ELSE [raises |-> FALSE, value |-> u.prompt_token_count + u.candidates_token_count]

\* f"I encountered an error: {str(e)}. Please try again."
error_message(e) == <<"I encountered an error: ", e, ". Please try again.">>

\* candidate.content.parts of a Gateway response
RECURSIVE call_parts(_)
call_parts(calls) ==
    IF calls = <<>> THEN <<>> ELSE <<FunctionCallPart(Head(calls).name)>> \o call_parts(Tail(calls))

response_parts(resp) ==
    (IF resp.text # <<>> THEN <<TextPart(resp.text)>> ELSE <<>>) \o call_parts(resp.function_calls)

\* ----------------------------------------------------------------- state
VARIABLES
    impl,        \* which draft of Agent runs
    config,      \* Config: max_iterations, retry_attempts, enable_history
    metrics,     \* Agent.metrics
    sessions,    \* ConversationManager.sessions: session id -> its messages
    current,     \* id of ConversationManager.current_session, 0 for None
    store,       \* history_dir: session id -> what its file holds
    pc,          \* "idle", or "calling": process_request is about to call the Gateway
    user_input,  \* argument of the running process_request
    messages,    \* working message sequence of _generate_with_retry
    iteration,   \* loop variables of _generate_with_retry
    attempt,
    response,    \* last response the Gateway returned
    result,      \* what the last process_request returned
    trips,       \* history: round-trips of this request: responses the loop has taken
                 \* (a response whose attempt fails while it is read is dropped)
    fails,       \* history: attempts that failed in a row, up to now
    carried,     \* history: tool calls carried by the responses taken
    allTools,    \* history: every response taken so far carried tool calls
    gatewayCalls, \* history: Gateway calls made so far, all requests together
    atStart,     \* history: metrics when this request started
    op,          \* last operation a caller applied to the ConversationManager itself
    loaded,      \* what the last get_session returned
    ops,         \* history: operations applied to the ConversationManager itself
    returned,    \* what the last add_message, create_session or search_sessions returned
    snapshot,    \* what a caller holds from its last get_metrics
    slept,       \* time.sleep of the last step, 0 when it did not sleep
    unregistered, \* ids of the session objects the sessions map no longer holds
    logger_errors,         \* len(metrics['errors']) of the process's AgentLogger
    logger_function_calls, \* sum of metrics['function_calls'] of the AgentLogger
    config_file            \* config.json in the data directory of the user

vars == <<impl, config, metrics, sessions, current, store, pc, user_input, messages,
          iteration, attempt, response, result, trips, fails, carried, allTools, gatewayCalls, atStart,
          op, loaded, ops, returned, snapshot, slept, unregistered,
          logger_errors, logger_function_calls, config_file>>

\* the metrics of the AgentLogger every Agent of the process logs to
loggerVars == <<logger_errors, logger_function_calls>>

\* the variables only the callers of the ConversationManager move
managerVars == <<op, loaded, ops, returned, unregistered>>

\* nothing returned yet: the message add_message returns, or the ids of
\* the sessions create_session and search_sessions return
NoReturn == [message |-> <<>>, sessions |-> <<>>]

\* the caller has not called get_metrics: it holds no reference and no copy
NoSnapshot == [held |-> "nothing", value |-> <<>>]

\* an operation, and the one applied before it
Op(name, id, outcome) == [name |-> name, id |-> id, outcome |-> outcome]

NoOp == [name |-> "none", id |-> 0, outcome |-> "", after |-> Op("none", 0, "")]

\* a float that is a quotient of integers, in lowest terms
RECURSIVE GCD(_, _)
GCD(a, b) == IF b = 0 THEN a ELSE GCD(b, a % b)

Ratio(n, d) == [num |-> n \div GCD(n, d), den |-> d \div GCD(n, d)]

ZeroMetrics ==
    [total_requests |-> 0, successful_requests |-> 0, failed_requests |-> 0,
     total_tokens |-> 0, function_calls |-> 0, average_response_time |-> Ratio(0, 1)]

\* time.time() - start_time, in seconds: the n-th request of an Agent takes
\* 2n seconds
elapsed_time(m) == 2 * m.total_requests

\* (current_avg * (total_successful - 1) + elapsed_time) / total_successful
running_average(current_avg, total_successful, elapsed) ==
    Ratio(current_avg.num * (total_successful - 1) + elapsed * current_avg.den,
          current_avg.den * total_successful)

\* Agent._update_metrics(elapsed_time, success=True) of src/agent.py: the
\* count of successes is read before this request is counted
_update_metrics_src(m) ==
    LET total_successful == m.successful_requests
    IN  [m EXCEPT !.average_response_time =
            IF total_successful > 0
            THEN running_average(@, total_successful, elapsed_time(m))
            ELSE Ratio(elapsed_time(m), 1)]

\* Agent._update_metrics(elapsed_time, success=True) of ai_agent/src/agent.py
_update_metrics(m) ==
    LET total_successful == m.successful_requests + 1
    IN  [m EXCEPT !.average_response_time =
            running_average(@, total_successful, elapsed_time(m))]

\* there is no config.json in the data directory
NoConfigFile == [exists |-> FALSE, dict |-> <<>>]

\* an Agent that has served no request, its config, its draft and its
\* sessions set aside
Unused ==
    /\ metrics = ZeroMetrics
    /\ pc = "idle"
    /\ user_input = <<>>
    /\ messages = <<>>
    /\ iteration = 0
    /\ attempt = 0
    /\ response = NoResponse
    /\ result = <<>>
    /\ trips = 0
    /\ fails = 0
    /\ carried = 0
    /\ allTools = TRUE
    /\ gatewayCalls = 0
    /\ atStart = ZeroMetrics
    /\ op = NoOp
    /\ loaded = NoSession
    /\ ops = 0
    /\ returned = NoReturn
    /\ snapshot = NoSnapshot
    /\ slept = 0
    /\ unregistered = {}
    /\ logger_errors = 0
    /\ logger_function_calls = 0
    /\ config_file = NoConfigFile

\* a new Agent, its config and its draft set aside
Fresh ==
    /\ sessions = <<>>
    /\ current = 0
    /\ store = <<>>
    /\ Unused

Init ==
    /\ impl \in Impls
    /\ config \in [max_iterations : 1..MaxIterations,
                   retry_attempts : 1..MaxRetry,
                   enable_history : BOOLEAN]
    /\ Fresh

\* ------------------------------------------------------ process_request
\* process_request returns r; the locals of the call go out of scope
Returned(r) ==
    /\ pc' = "idle"
    /\ slept' = 0
    /\ result' = r
    /\ messages' = <<>>
    /\ iteration' = 0
    /\ attempt' = 0

\* mutant: the failure is counted but not recorded in the conversation
Failed_unrecorded(e, m, sess, st) ==
    /\ metrics' = [m EXCEPT !.failed_requests = @ + 1]
    /\ sessions' = sess
    /\ store' = st
    /\ logger_errors' = logger_errors + 1
    /\ Returned(error_message(e))

\* mutant: the failure is recorded in the conversation but not counted
Failed_uncounted(e, m, sess, st) ==
    /\ metrics' = m
    /\ sessions' = add_message(sess, current, "assistant", error_message(e))
    /\ store' = st
    /\ logger_errors' = logger_errors + 1
    /\ Returned(error_message(e))

\* the except clause of process_request; e is str(e)
Failed(e, m, sess, st) ==
    /\ metrics' = [m EXCEPT !.failed_requests = @ + 1]
    /\ sessions' = add_message(sess, current, "assistant", error_message(e))
    /\ store' = st
    /\ logger_errors' = logger_errors + 1
    /\ Returned(error_message(e))

\* process_request after _generate_with_retry returned r: save the session
\* when history is enabled (save is how the write ends), count the success
Succeeded(r, m, sess, save) ==
    LET timed == IF impl = "ai_agent" THEN _update_metrics(m) ELSE _update_metrics_src(m)
    IN
    IF config.enable_history /\ save # "ok"
    THEN Failed(SaveError, timed, sess, save_session(store, current, sess[current], save))
    ELSE /\ metrics' = [timed EXCEPT !.successful_requests = @ + 1]
         /\ sessions' = sess
         /\ store' = IF config.enable_history
                     THEN save_session(store, current, sess[current], "ok")
                     ELSE store
         /\ UNCHANGED logger_errors
         /\ Returned(r)

\* --------------------------------------------------- _generate_with_retry
\* "break": the attempt loop is left, the iteration loop takes its next turn
after_break ==
    IF iteration + 1 < config.max_iterations
    THEN [over |-> FALSE, iteration |-> iteration + 1, attempt |-> 0]
    ELSE [over |-> TRUE, iteration |-> 0, attempt |-> 0]

\* mutant: "continue" takes the same turn of the attempt loop again
after_continue_again == [over |-> FALSE, iteration |-> iteration, attempt |-> attempt]

\* "continue" after tool calls: it is the attempt loop that takes its next turn
after_continue ==
    IF attempt + 1 < config.retry_attempts
    THEN [over |-> FALSE, iteration |-> iteration, attempt |-> attempt + 1]
    ELSE after_break

\* mutant: a text ends the request even when tool calls come with it
branch_text_first(resp) ==
    IF resp.text # <<>> THEN "text"
    ELSE IF resp.function_calls # <<>> THEN "function_calls"
    ELSE "break"

\* which way the loop body goes on a response: tool calls are looked at
\* before the text
branch(resp) ==
    IF resp.function_calls # <<>> THEN "function_calls"
    ELSE IF resp.text # <<>> THEN "text"
    ELSE "break"

\* the loops go on at position pos, or they are over and the fallback is returned
Proceed(pos, msgs, m, save) ==
    IF pos.over
    THEN Succeeded(Fallback, m, sessions, save)
    ELSE /\ pc' = "calling"
         /\ slept' = 0
         /\ iteration' = pos.iteration
         /\ attempt' = pos.attempt
         /\ messages' = msgs
         /\ metrics' = m
         /\ UNCHANGED <<sessions, store, result, logger_errors>>

\* Config.retry_delay, in seconds
retry_delay == 1

\* time.sleep(self.config.retry_delay * (attempt + 1))
backoff(a) == retry_delay * (a + 1)

\* mutant: the last failed attempt is not re-raised, the next iteration runs
AttemptFailed_swallowed(e) ==
    IF attempt < config.retry_attempts - 1
    THEN /\ attempt' = attempt + 1
         /\ slept' = backoff(attempt)
         /\ UNCHANGED <<pc, iteration, messages, metrics, sessions, store, result,
                        logger_errors>>
    ELSE Proceed(after_break, messages, metrics, "ok")

\* the except clause of the attempt loop: sleep and retry, or re-raise;
\* msgs and m are the working sequence and the metrics as the try block
\* left them
AttemptFailedAfter(e, msgs, m) ==
    IF attempt < config.retry_attempts - 1
    THEN /\ attempt' = attempt + 1
         /\ slept' = backoff(attempt)
         /\ messages' = msgs
         /\ metrics' = m
         /\ UNCHANGED <<pc, iteration, sessions, store, result, logger_errors>>
    ELSE Failed(e, m, sessions, store)

\* an attempt that failed before its try block changed anything
AttemptFailed(e) == AttemptFailedAfter(e, messages, metrics)

\* mutant: every tool result is fed back in a message of its own
RECURSIVE append_function_responses_each(_, _)
append_function_responses_each(msgs, function_responses) ==
    IF function_responses = <<>> THEN msgs
    ELSE append_function_responses_each(Append(msgs, Content("user", <<Head(function_responses)>>)),
                                        Tail(function_responses))

\* if function_responses: messages.append(Content(role="user", parts=function_responses))
append_function_responses(msgs, function_responses) ==
    IF function_responses # <<>>
    THEN Append(msgs, Content("user", function_responses))
    ELSE msgs

\* ---------------------------------------------------------------- actions
\* process_request(inp) up to its first Gateway call
StartRequest(inp) ==
    /\ pc = "idle"
    /\ LET cur   == IF current = 0 THEN Len(sessions) + 1 ELSE current
           sess0 == IF current = 0 THEN Append(sessions, <<>>) ELSE sessions
           sess1 == add_message(sess0, cur, "user", inp)
           ctx   == get_context(TRUE, sess1[cur], ContextWindow)
       IN  /\ current' = cur
           /\ sessions' = sess1
           /\ store' = IF current = 0 THEN Append(store, NotSaved) ELSE store
           /\ messages' = IF impl = "ai_agent"
                          THEN _prepare_messages(config.enable_history, ctx, inp)
                          ELSE _prepare_messages_src(config.enable_history, ctx, inp)
    /\ metrics' = [metrics EXCEPT !.total_requests = @ + 1]
    /\ pc' = "calling"
    /\ iteration' = 0
    /\ attempt' = 0
    /\ user_input' = inp
    /\ trips' = 0
    /\ fails' = 0
    /\ carried' = 0
    /\ allTools' = TRUE
    /\ atStart' = metrics
    /\ response' = NoResponse
    /\ result' = <<>>
    /\ slept' = 0
    /\ UNCHANGED <<impl, config, config_file, gatewayCalls, managerVars, snapshot, loggerVars>>

\* generate_content raises e
GatewayRaises(e) ==
    /\ pc = "calling"
    /\ gatewayCalls < MaxGatewayCalls
    /\ gatewayCalls' = gatewayCalls + 1
    /\ AttemptFailed(e)
    /\ fails' = fails + 1
    /\ UNCHANGED <<impl, config, config_file, current, user_input, response, trips, carried, allTools, atStart,
                   managerVars, snapshot, logger_function_calls>>

\* generate_content returns resp; the loop body runs up to the next Gateway
\* call or up to the return of process_request
GatewayResponds(resp, save) ==
    /\ pc = "calling"
    /\ gatewayCalls < MaxGatewayCalls
    /\ gatewayCalls' = gatewayCalls + 1
    /\ response' = resp
    /\ LET tok   == IF impl = "ai_agent" THEN token_count(resp.usage_metadata)
                    ELSE token_count_src(resp.usage_metadata)
           m1    == IF resp.usage_metadata.present
                    THEN [metrics EXCEPT !.total_tokens = @ + tok.value]
                    ELSE metrics
           msgs1 == Append(messages, Content("model", response_parts(resp)))
           k     == args_error_at(resp.function_calls)
           hk    == _handle_function_calls(impl, SubSeq(resp.function_calls, 1, k - 1),
                                           m1.function_calls)
           h     == _handle_function_calls(impl, resp.function_calls, m1.function_calls)
           m2    == [m1 EXCEPT !.function_calls = h.function_calls]
           msgs2 == append_function_responses(msgs1, h.function_responses)
       IN  IF resp.usage_metadata.present /\ tok.raises
           THEN /\ AttemptFailed(TypeError)
                /\ fails' = fails + 1
                /\ UNCHANGED <<trips, carried, allTools, logger_function_calls>>
           ELSE IF k > 0
           THEN /\ AttemptFailedAfter(ArgsError, msgs1,
                                      [m1 EXCEPT !.function_calls = hk.function_calls + 1])
                /\ logger_function_calls' = logger_function_calls
                       + logged_function_calls(impl, SubSeq(resp.function_calls, 1, k - 1))
                /\ fails' = fails + 1
                /\ UNCHANGED <<trips, carried, allTools>>
           ELSE /\ fails' = 0
                /\ logger_function_calls' = logger_function_calls
                       + logged_function_calls(impl, resp.function_calls)
                /\ trips' = trips + 1
                /\ carried' = carried + Len(resp.function_calls)
                /\ allTools' = (allTools /\ resp.function_calls # <<>>)
                /\ IF branch(resp) = "function_calls"
                   THEN Proceed(after_continue, msgs2, m2, save)
                   ELSE IF branch(resp) = "text"
                        THEN Succeeded(resp.text, m1,
                                 add_message(sessions, current, "assistant", resp.text), save)
                        ELSE Proceed(after_break, msgs1, m1, save)
    /\ UNCHANGED <<impl, config, config_file, current, user_input, atStart, managerVars, snapshot>>

Next ==
    \/ \E inp \in UserInputs : metrics.total_requests < MaxRequests /\ StartRequest(inp)
    \/ \E e \in GatewayErrors : GatewayRaises(e)
    \/ \E resp \in Responses, save \in SaveOutcomes : GatewayResponds(resp, save)

Spec == Init /\ [][Next]_vars

\* ------------------------------------------- the normalizer on its own
MaxHistory == 2         \* messages in the session before the request

HistoryRoles == {"user", "assistant", "model", "tool"}

HistoryContents == {<<>>, <<" ">>, <<" ", "a">>}

HistoryMessages == {Message(r, c) : r \in HistoryRoles, c \in HistoryContents}

Histories == UNION {[1..n -> HistoryMessages] : n \in 0..MaxHistory}

\* a fresh Agent whose current session was filled through
\* ConversationManager.add_message
NormInit ==
    /\ impl \in Impls
    /\ config \in [max_iterations : {MaxIterations},
                   retry_attempts : {MaxRetry},
                   enable_history : BOOLEAN]
    /\ metrics = ZeroMetrics
    /\ sessions \in {<<h>> : h \in Histories}
    /\ current = 1
    /\ store = <<NotSaved>>
    /\ pc = "idle"
    /\ user_input = <<>>
    /\ messages = <<>>
    /\ iteration = 0
    /\ attempt = 0
    /\ response = NoResponse
    /\ result = <<>>
    /\ trips = 0
    /\ fails = 0
    /\ carried = 0
    /\ allTools = TRUE
    /\ gatewayCalls = 0
    /\ atStart = ZeroMetrics
    /\ op = NoOp
    /\ loaded = NoSession
    /\ ops = 0
    /\ returned = NoReturn
    /\ snapshot = NoSnapshot
    /\ slept = 0
    /\ unregistered = {}
    /\ logger_errors = 0
    /\ logger_function_calls = 0
    /\ config_file = NoConfigFile

NormNext == \E inp \in UserInputs : StartRequest(inp)

SpecNorm == NormInit /\ [][NormNext]_vars

\* ------------------------------- the normalizer on a long conversation
MaxWindowHistory == 12  \* messages in the session before the request

\* who wrote the messages of the session: the user alone, or the user and
\* the model in turn, the replies stored as "model" or as "assistant"
WindowPatterns == {<<"user", "user">>, <<"user", "model">>, <<"user", "assistant">>}

\* a session of n messages, the i-th with a content of its own
LongHistory(n, pattern) ==
    [i \in 1..n |-> Message(pattern[2 - (i % 2)], <<"m", ToString(i)>>)]

WindowInit ==
    /\ impl \in Impls
    /\ config \in [max_iterations : {1}, retry_attempts : {1}, enable_history : BOOLEAN]
    /\ sessions \in {<<LongHistory(n, p)>> : n \in 0..MaxWindowHistory, p \in WindowPatterns}
    /\ current = 1
    /\ store = <<NotSaved>>
    /\ Unused

SpecWindow == WindowInit /\ [][NormNext]_vars

\* the src/agent.py draft on a long conversation
WindowInitSrc == WindowInit /\ impl = "src"

SpecWindowSrc == WindowInitSrc /\ [][NormNext]_vars

\* the normalizer of the src/agent.py draft on its own
NormInitSrc == NormInit /\ impl = "src"

SpecNormSrc == NormInitSrc /\ [][NormNext]_vars

\* the loop of the ai_agent/src/agent.py draft on its own
InitAI == Init /\ impl = "ai_agent"

SpecAI == InitAI /\ [][Next]_vars

\* ------------------------------------- the ConversationManager on its own
MaxOps == 4             \* operations applied to the manager per behaviour

MaxSessions == 2        \* sessions created per behaviour

ManagerRoles == {"user", "assistant"}

ManagerContents == {<<"a">>, <<Quote>>, <<Backslash, Quote>>, <<"A", "a">>}

\* search_sessions(query, limit=10)
DefaultLimit == 10

SearchLimits == {0, 1, DefaultLimit}

Queries == {<<"A">>, <<"a", "a">>}

\* mutant: the new session starts with the message list of the last one
create_session_shared(sess) == Append(sess, IF sess = <<>> THEN <<>> ELSE sess[Len(sess)])

\* ConversationManager.create_session: a new session, made current
create_session(sess) == Append(sess, <<>>)

\* str.lower(), symbol by symbol
RECURSIVE lower(_)
lower(s) ==
    IF s = <<>> THEN <<>>
    ELSE <<IF Head(s) = "A" THEN "a" ELSE Head(s)>> \o lower(Tail(s))

\* the operator "in" of two strings
contains(s, q) == \E i \in 0..(Len(s) - Len(q)) : SubSeq(s, i + 1, i + Len(q)) = q

\* mutant: the content is compared as it is written
session_matches_case(msgs, query) ==
    \E k \in 1..Len(msgs) : contains(msgs[k].content, lower(query))

\* the inner loop of search_sessions: some message holds the query
session_matches(msgs, query) ==
    \E k \in 1..Len(msgs) : contains(lower(msgs[k].content), lower(query))

\* the outer loop of search_sessions from session i on: a session that
\* matches is appended, and the loop is left once limit sessions are found
RECURSIVE search_loop(_, _, _, _, _)
search_loop(sess, i, query, limit, matching_sessions) ==
    IF i > Len(sess) THEN matching_sessions
    ELSE LET found == IF session_matches(sess[i], query)
                      THEN Append(matching_sessions, i)
                      ELSE matching_sessions
         IN  IF Len(found) >= limit THEN found
             ELSE search_loop(sess, i + 1, query, limit, found)

\* ConversationManager.search_sessions: the ids of the sessions returned
search_sessions(sess, query, limit) == search_loop(sess, 1, query, limit, <<>>)

\* ConversationManager.get_session on the manager that holds the sessions
\* sess: the session in memory, else the one its file gives
get_session(sess, st, id) ==
    IF id \in DOMAIN sess
    THEN [found |-> TRUE, session_id |-> <<ToString(id)>>, messages |-> sess[id]]
    ELSE load_session(st, id)

Applied(name, id, outcome) ==
    /\ pc = "idle"
    /\ ops < MaxOps
    /\ ops' = ops + 1
    /\ op' = [name |-> name, id |-> id, outcome |-> outcome,
              after |-> Op(op.name, op.id, op.outcome)]
    /\ UNCHANGED <<impl, config, config_file, metrics, pc, user_input, messages, iteration, attempt,
                   response, result, trips, fails, carried, allTools, gatewayCalls, atStart,
                   snapshot, slept, loggerVars>>

CreateSession ==
    /\ Len(sessions) < MaxSessions
    /\ sessions' = create_session(sessions)
    /\ current' = Len(sessions) + 1
    /\ store' = Append(store, NotSaved)
    /\ Applied("create_session", Len(sessions) + 1, "")
    /\ returned' = [message |-> <<>>, sessions |-> <<Len(sessions) + 1>>]
    /\ UNCHANGED <<loaded, unregistered>>

\* ConversationManager.add_message: creates the session when there is none
AddMessage(role, content) ==
    /\ LET cur   == IF current = 0 THEN Len(sessions) + 1 ELSE current
           sess0 == IF current = 0 THEN create_session(sessions) ELSE sessions
       IN  /\ current' = cur
           /\ sessions' = add_message(sess0, cur, role, content)
           /\ store' = IF current = 0 THEN Append(store, NotSaved) ELSE store
           /\ Applied("add_message", cur, "")
    /\ returned' = [message |-> <<Message(role, content)>>, sessions |-> <<>>]
    /\ UNCHANGED <<loaded, unregistered>>

SaveSession(id, outcome) ==
    /\ id \in DOMAIN sessions
    /\ store' = save_session(store, id, sessions[id], outcome)
    /\ Applied("save_session", id, outcome)
    /\ returned' = NoReturn
    /\ UNCHANGED <<sessions, current, loaded, unregistered>>

\* the sessions map: the session objects registered under their ids
Registered == [id \in DOMAIN sessions \ unregistered |-> sessions[id]]

\* what sessions.values() gives search_sessions: nothing of a session the
\* map no longer holds
Values == [id \in DOMAIN sessions |-> IF id \in unregistered THEN <<>> ELSE sessions[id]]

\* get_session(id): a session read from its file is registered under its
\* id; when id is the id of the current session, the object registered is
\* not the current one
GetSession(id) ==
    /\ loaded' = get_session(Registered, store, id)
    /\ IF id \in unregistered /\ id # current /\ load_session(store, id).found
       THEN /\ sessions' = [sessions EXCEPT ![id] = load_session(store, id).messages]
            /\ unregistered' = unregistered \ {id}
       ELSE UNCHANGED <<sessions, unregistered>>
    /\ Applied("get_session", id, "")
    /\ returned' = NoReturn
    /\ UNCHANGED <<current, store>>

\* clear_old_sessions(days): the files older than the cutoff, old, are
\* unlinked and their sessions popped from the map
ClearOldSessions(old) ==
    /\ old \subseteq {id \in DOMAIN store : store[id].state # "absent"}
    /\ store' = [id \in DOMAIN store |-> IF id \in old THEN NotSaved ELSE store[id]]
    /\ unregistered' = unregistered \cup old
    /\ Applied("clear_old_sessions", Cardinality(old), "")
    /\ returned' = NoReturn
    /\ UNCHANGED <<sessions, current, loaded>>

\* get_session on a second manager started on the same history_dir, which
\* holds in memory only what the files give
LoadSession(id) ==
    /\ loaded' = get_session(<<>>, store, id)
    /\ Applied("load_session", id, "")
    /\ returned' = NoReturn
    /\ UNCHANGED <<sessions, current, store, unregistered>>

\* search_sessions(query, limit); the operation is recorded with the limit
SearchSessions(query, limit) ==
    /\ returned' = [message |-> <<>>, sessions |-> search_sessions(Values, query, limit)]
    /\ Applied("search_sessions", limit, "")
    /\ UNCHANGED <<sessions, current, store, loaded, unregistered>>

ConvInit ==
    /\ Init
    /\ impl = "src"
    /\ config = [max_iterations |-> 1, retry_attempts |-> 1, enable_history |-> TRUE]

ConvNext ==
    \/ CreateSession
    \/ \E role \in ManagerRoles, content \in ManagerContents : AddMessage(role, content)
    \/ \E id \in 1..MaxSessions, outcome \in SaveOutcomes : SaveSession(id, outcome)
    \/ \E id \in 1..MaxSessions : GetSession(id)
    \/ \E id \in 1..MaxSessions : LoadSession(id)
    \/ \E query \in Queries, limit \in SearchLimits : SearchSessions(query, limit)

SpecConv == ConvInit /\ [][ConvNext]_vars

\* ------------------------- the ConversationManager with old files cleared
ClearNext ==
    \/ CreateSession
    \/ \E role \in ManagerRoles, content \in ManagerContents : AddMessage(role, content)
    \/ \E id \in 1..MaxSessions, outcome \in SaveOutcomes : SaveSession(id, outcome)
    \/ \E id \in 1..MaxSessions : GetSession(id)
    \/ \E old \in SUBSET (1..MaxSessions) : ClearOldSessions(old)

SpecClear == ConvInit /\ [][ClearNext]_vars

\* ------------------------------ one Agent serving several requests in turn
MaxMetricRequests == 3  \* process_request calls per behaviour

\* Agent.reset_session: create_session on the Agent's ConversationManager
ResetSession == CreateSession

MetricsInit ==
    /\ Init
    /\ config.max_iterations = 1

\* what the requests of these behaviours are given: one input, one error, a
\* text, a round of tool calls, a response whose token counts are missing
MetricInputs == {<<" ", "a">>}

MetricErrors == {"timeout"}

MetricResponses ==
    { Response(<<>>, <<"a">>, Usage(1, 2)),
      Response(<<Call("list_files", "ok")>>, <<>>, Usage(1, 2)),
      Response(<<Call("list_files", "ok")>>, <<"a">>, Usage(None, None)) }

MetricSaves == {"ok", "open_fails"}

MetricsNext ==
    \/ \E inp \in MetricInputs :
           metrics.total_requests < MaxMetricRequests /\ StartRequest(inp)
    \/ \E e \in MetricErrors : GatewayRaises(e)
    \/ \E resp \in MetricResponses, save \in MetricSaves : GatewayResponds(resp, save)
    \/ ResetSession

SpecMetrics == MetricsInit /\ [][MetricsNext]_vars

\* -------------------------------- a caller reading the Agent's metrics
\* AgentLogger.get_metrics_summary: the totals of what was logged
get_metrics_summary(errors, function_calls) ==
    [total_function_calls |-> function_calls, total_errors |-> errors]

\* metrics.update(summary) on a copy of the Agent's metrics
updated(m, summary) ==
    [key \in DOMAIN m \cup DOMAIN summary |->
        IF key \in DOMAIN summary THEN summary[key] ELSE m[key]]

\* Agent.get_metrics: ai_agent/src/agent.py returns self.metrics, the
\* dictionary process_request writes to; src/agent.py returns a copy of it
\* updated with the summary of the AgentLogger
get_metrics(variant, m, summary) ==
    IF variant = "ai_agent"
    THEN [held |-> "reference", value |-> <<>>]
    ELSE [held |-> "copy", value |-> updated(m, summary)]

\* what the caller reads in the value it holds: a reference reads the
\* Agent's dictionary as it is now
held_value(snap, m) == IF snap.held = "reference" THEN m ELSE snap.value

\* the keys a caller writes to, and the value it writes
CallerKeys == {"total_tokens", "failed_requests"}

CallerValue == 0

GetMetrics ==
    /\ pc = "idle"
    /\ snapshot' = get_metrics(impl, metrics,
                             get_metrics_summary(logger_errors, logger_function_calls))
    /\ UNCHANGED <<impl, config, config_file, metrics, sessions, current, store, pc, user_input, messages,
                   iteration, attempt, response, result, trips, fails, carried, allTools,
                   gatewayCalls, atStart, managerVars, slept, loggerVars>>

\* the caller assigns to a key of the value get_metrics returned
CallerWrites(key) ==
    /\ pc = "idle"
    /\ snapshot.held # "nothing"
    /\ IF snapshot.held = "reference"
       THEN /\ metrics' = [metrics EXCEPT ![key] = CallerValue]
            /\ UNCHANGED snapshot
       ELSE /\ snapshot' = [snapshot EXCEPT !.value[key] = CallerValue]
            /\ UNCHANGED metrics
    /\ UNCHANGED <<impl, config, config_file, sessions, current, store, pc, user_input, messages,
                   iteration, attempt, response, result, trips, fails, carried, allTools,
                   gatewayCalls, atStart, managerVars, slept, loggerVars>>

SnapshotInit ==
    /\ MetricsInit
    /\ config.retry_attempts = 1

SnapshotNext ==
    \/ \E inp \in MetricInputs :
           metrics.total_requests < MaxMetricRequests /\ StartRequest(inp)
    \/ \E e \in MetricErrors : GatewayRaises(e)
    \/ \E resp \in MetricResponses, save \in MetricSaves : GatewayResponds(resp, save)
    \/ GetMetrics
    \/ \E key \in CallerKeys : CallerWrites(key)

SpecSnapshot == SnapshotInit /\ [][SnapshotNext]_vars

\* ------------------------------------ the attempt loop with room to retry
\* three attempts per Gateway call, the default of Config.retry_attempts
RetryInit ==
    /\ impl \in Impls
    /\ config = [max_iterations |-> 1, retry_attempts |-> MaxRetry + 1,
                 enable_history |-> TRUE]
    /\ Fresh

\* a text, a round of tool calls, and a round whose second call comes
\* without args
RetryResponses ==
    { Response(<<>>, <<"a">>, Usage(1, 2)),
      Response(<<Call("list_files", "ok")>>, <<>>, NoUsage),
      Response(<<Call("list_files", "ok"), NoArgsCall("list_files", "ok")>>, <<>>, NoUsage) }

RetryNext ==
    \/ \E inp \in MetricInputs : metrics.total_requests < MaxRequests /\ StartRequest(inp)
    \/ \E e \in GatewayErrors : GatewayRaises(e)
    \/ \E resp \in RetryResponses, save \in MetricSaves : GatewayResponds(resp, save)

SpecRetry == RetryInit /\ [][RetryNext]_vars

\* ------------------------------------------- one request run to its end
\* the configs whose loops fit in the Gateway calls of one behaviour
LiveInit ==
    /\ impl \in Impls
    /\ config \in {c \in [max_iterations : 1..MaxIterations,
                           retry_attempts : 1..MaxRetry,
                           enable_history : {TRUE}] :
                        c.max_iterations * c.retry_attempts <= MaxGatewayCalls}
    /\ Fresh

\* the Gateway answers, with any of its outcomes
GatewayStep ==
    \/ \E e \in MetricErrors : GatewayRaises(e)
    \/ \E resp \in RetryResponses \cup {NoResponse}, save \in MetricSaves :
           GatewayResponds(resp, save)

\* a request is started when the calls left cover its loops
LiveNext ==
    \/ \E inp \in MetricInputs :
           /\ gatewayCalls + config.max_iterations * config.retry_attempts <= MaxGatewayCalls
           /\ StartRequest(inp)
    \/ GatewayStep

\* every Gateway call returns or raises
SpecLive == LiveInit /\ [][LiveNext]_vars /\ WF_vars(GatewayStep)

\* ------------------------------------------ two Agents in one process
MaxLogged == 2  \* errors, and function calls, logged before another Agent's request

\* process_request on another Agent of the process, built from the same
\* config: setup_logging gave it the AgentLogger the first Agent logs to.
\* Its one Gateway call raises, or returns resp; save is how its write ends
OtherAgentRequest(raises, resp, save) ==
    /\ pc = "idle"
    /\ logger_errors < MaxLogged
    /\ logger_function_calls < MaxLogged
    /\ LET tok    == IF impl = "ai_agent" THEN token_count(resp.usage_metadata)
                     ELSE token_count_src(resp.usage_metadata)
           before == raises \/ (resp.usage_metadata.present /\ tok.raises)
           failed == before \/ (config.enable_history /\ save # "ok")
       IN  /\ logger_function_calls' = logger_function_calls
                  + IF before THEN 0 ELSE logged_function_calls(impl, resp.function_calls)
           /\ logger_errors' = logger_errors + IF failed THEN 1 ELSE 0
    /\ UNCHANGED <<impl, config, config_file, metrics, sessions, current, store, pc, user_input, messages,
                   iteration, attempt, response, result, trips, fails, carried, allTools,
                   gatewayCalls, atStart, managerVars, snapshot, slept>>

TwoInit == SnapshotInit

TwoNext ==
    \/ \E inp \in MetricInputs :
           metrics.total_requests < MaxMetricRequests /\ StartRequest(inp)
    \/ \E e \in MetricErrors : GatewayRaises(e)
    \/ \E resp \in MetricResponses, save \in MetricSaves : GatewayResponds(resp, save)
    \/ GetMetrics
    \/ \E raises \in BOOLEAN, resp \in MetricResponses, save \in MetricSaves :
           OtherAgentRequest(raises, resp, save)

SpecTwo == TwoInit /\ [][TwoNext]_vars

\* ------------------------------------------------------------ Config
\* the fields of Config that _validate_config looks at, and their defaults;
\* a temperature is counted in tenths, 0.7 is 7
ConfigDefaults == [max_iterations |-> 30, temperature |-> 7, timeout |-> 60]

\* the values a caller, config.json or the file given to from_file holds
\* for a field
ConfigValues ==
    [max_iterations |-> {0, 1}, temperature |-> {-1, 20, 21}, timeout |-> {0, 1}]

\* the dictionaries a caller or a file gives: some of the fields, each with
\* one of its values
ConfigDicts ==
    UNION { { d \in [keys -> UNION {ConfigValues[k] : k \in DOMAIN ConfigValues}] :
                  \A k \in keys : d[k] \in ConfigValues[k] } :
            keys \in SUBSET DOMAIN ConfigValues }

\* Config._validate_config: TRUE when it raises no ValueError; the API key
\* is set in the environment
_validate_config(c) ==
    /\ ~ (c.max_iterations < 1)
    /\ 0 <= c.temperature /\ c.temperature <= 20
    /\ ~ (c.timeout < 1)

\* Config._update_from_dict: setattr for every key of the dictionary
_update_from_dict(c, config_dict) ==
    [key \in DOMAIN c |-> IF key \in DOMAIN config_dict THEN config_dict[key] ELSE c[key]]

\* Config._load_user_config: config.json is read when it exists
_load_user_config(c, file) ==
    IF file.exists THEN _update_from_dict(c, file.dict) ELSE c

\* Config(**kwargs): the dataclass fields are set, then __post_init__
\* validates them and loads the user's config.json
__post_init__(kwargs, file) ==
    LET c == _update_from_dict(ConfigDefaults, kwargs)
    IN  IF _validate_config(c)
        THEN [raises |-> FALSE, config |-> _load_user_config(c, file)]
        ELSE [raises |-> TRUE, config |-> c]

\* Config.from_file(config_path): cls(), then the file's dictionary
from_file(config_dict, file) ==
    LET made == __post_init__(<<>>, file)
    IN  IF made.raises THEN made
        ELSE [raises |-> FALSE, config |-> _update_from_dict(made.config, config_dict)]

\* Config.save: the fields written to config.json
Config_save(c) ==
    [exists |-> TRUE,
     dict |-> [max_iterations |-> c.max_iterations, temperature |-> c.temperature]]

\* what no step of the construction of a Config changes
Constructing ==
    UNCHANGED <<impl, metrics, sessions, current, store, pc, user_input, messages,
                iteration, attempt, response, result, trips, fails, carried, allTools,
                gatewayCalls, atStart, managerVars, snapshot, slept, loggerVars>>

\* config = Config(**kwargs); when the constructor raises, the caller is
\* left with the Config it had
NewConfig(kwargs) ==
    /\ config' = IF __post_init__(kwargs, config_file).raises THEN config
                 ELSE __post_init__(kwargs, config_file).config
    /\ UNCHANGED config_file
    /\ Constructing

\* config = Config.from_file(config_path), the file holding config_dict
FromFile(config_dict) ==
    /\ config' = IF from_file(config_dict, config_file).raises THEN config
                 ELSE from_file(config_dict, config_file).config
    /\ UNCHANGED config_file
    /\ Constructing

\* config.save()
Save ==
    /\ config_file' = Config_save(config)
    /\ UNCHANGED config
    /\ Constructing

\* the user edits config.json in the data directory
UserWrites(config_dict) ==
    /\ config_file' = [exists |-> TRUE, dict |-> config_dict]
    /\ UNCHANGED config
    /\ Constructing

\* Config() in a data directory without config.json
ConfigInit ==
    /\ impl = "ai_agent"
    /\ config = __post_init__(<<>>, NoConfigFile).config
    /\ Fresh

ConfigNext ==
    \/ \E kwargs \in ConfigDicts : NewConfig(kwargs)
    \/ \E config_dict \in ConfigDicts : FromFile(config_dict)
    \/ Save
    \/ \E config_dict \in ConfigDicts : UserWrites(config_dict)

SpecConfig == ConfigInit /\ [][ConfigNext]_vars

\* ================================================================ claims
\* the request of the current state has returned
Returned_ == pc = "idle" /\ metrics.total_requests > 0

\* error messages of a request whose last Gateway attempt failed
AttemptErrors == {error_message(e) : e \in GatewayErrors \cup {TypeError}}

Last(seq) == seq[Len(seq)]

\* C1 (as claimed): within one request the round-trips, Gateway calls whose
\* response the loop takes, never number more than max_iterations.
C1_RoundTripsWithinMaxIterations == trips <= config.max_iterations

\* C2: a request never sees more than retry_attempts failed attempts in a
\* row, and once retry_attempts attempts in a row have failed the request
\* has ended with the failure: it is counted as failed and its error
\* message is returned, so no further Gateway call belongs to it.
C2_RetriesBounded ==
    /\ fails <= config.retry_attempts
    /\ fails = config.retry_attempts =>
          /\ pc = "idle"
          /\ result \in AttemptErrors
          /\ metrics.failed_requests = atStart.failed_requests + 1

C2_Witness ==
    /\ config.retry_attempts >= 2
    /\ fails = config.retry_attempts
    /\ pc = "idle"
    /\ result = error_message("timeout")

\* C3 (as claimed): a request fails on a Gateway failure only after
\* retry_attempts failures in a row; fewer failures are retried.
C3_FailsOnlyAfterAllRetries ==
    (Returned_ /\ result \in {error_message(e) : e \in GatewayErrors})
        => fails = config.retry_attempts

\* C4 (as claimed): once max_iterations responses of a request have been
\* taken and all of them carried tool calls, the request has returned the
\* fallback string as a success (a failing session save apart).
C4_FallbackAfterMaxIterations ==
    (allTools /\ trips >= config.max_iterations /\ result # error_message(SaveError))
        => /\ pc = "idle"
           /\ result = Fallback
           /\ metrics.failed_requests = atStart.failed_requests
           /\ metrics.successful_requests = atStart.successful_requests + 1

\* strings a Gateway response can carry as its text
GatewayTexts == {r.text : r \in Responses} \ {<<>>}

Range(seq) == {seq[i] : i \in 1..Len(seq)}

\* C5: process_request always returns a string; when the last Gateway
\* attempt failed and was re-raised, the string is the error message, the
\* request counts as failed and not as successful, and the error message is
\* the last message of the current session, with role assistant.
C5_AlwaysReturnsAString ==
    /\ Returned_ =>
          result \in GatewayTexts \cup {Fallback} \cup AttemptErrors \cup {error_message(SaveError)}
    /\ (Returned_ /\ fails > 0) =>
          /\ result \in AttemptErrors
          /\ metrics.failed_requests = atStart.failed_requests + 1
          /\ metrics.successful_requests = atStart.successful_requests
          /\ Last(sessions[current]) = Message("assistant", result)

C5_Witness ==
    /\ Returned_
    /\ fails = config.retry_attempts
    /\ result = error_message("invalid request")
    /\ Len(sessions[current]) = 2

\* the loop has just dispatched the tool calls of response and goes on
ToolRound == pc = "calling" /\ fails = 0 /\ response.function_calls # <<>>

\* the step that takes a response with tool calls
ToolStep ==
    /\ pc = "calling"
    /\ trips' = trips + 1
    /\ fails' = 0
    /\ response'.function_calls # <<>>

C9_ToolCallsBeforeText ==
    [][pc = "calling" =>
          /\ (ToolStep /\ response'.text # <<>>) =>
                /\ result' # response'.text
                /\ pc' = "calling" \/ result' \in {Fallback, error_message(SaveError)}
                /\ \A k \in 1..Len(sessions'[current]) :
                      k > Len(sessions[current])
                          => sessions'[current][k].content # response'.text
          /\ pc' = "idle" =>
                \/ result' = Fallback
                \/ result' \in AttemptErrors \cup {error_message(SaveError)}
                \/ /\ trips' = trips + 1
                   /\ response'.function_calls = <<>>
                   /\ response'.text # <<>>
                   /\ result' = response'.text]_vars

C9_Witness ==
    /\ ToolRound
    /\ response.text = <<"a">>
    /\ result = <<>>
    /\ Len(sessions[current]) = 1

\* a part the Gateway accepts: text that is not blank, or a tool result
ValidPart(part) ==
    \/ part.kind = "text" /\ \E i \in 1..Len(part.text) : part.text[i] \notin Whitespace
    \/ part.kind = "function_response"

\* C10: whatever the session holds and whatever the input is, the sequence
\* _prepare_messages (ai_agent/src/agent.py) hands to the loop is not empty
\* and each of its messages has a part that is non-blank text or a tool
\* result.
C10_NormalizedMessagesValid ==
    (pc = "calling" /\ impl = "ai_agent") =>
        /\ messages # <<>>
        /\ \A k \in 1..Len(messages) :
              /\ messages[k].parts # <<>>
              /\ \E i \in 1..Len(messages[k].parts) : ValidPart(messages[k].parts[i])

C10_Witness ==
    /\ pc = "calling"
    /\ impl = "ai_agent"
    /\ config.enable_history
    /\ Len(sessions[current]) = 3
    /\ \A k \in 1..3 : strip(sessions[current][k].content) = <<>>
    /\ sessions[current][1].role = "user"
    /\ messages = <<Content("user", <<TextPart(<<"Hello">>)>>)>>

\* the session of the request as it was before the request appended its input
History == SubSeq(sessions[current], 1, Len(sessions[current]) - 1)

\* C11 (as claimed): the last message handed to the Gateway is a user
\* message whose text is "Hello" when the input is empty or blank, and the
\* stripped input otherwise.
C11_BlankInputBecomesHello ==
    pc = "calling" =>
        Last(messages) = Content("user", <<TextPart(IF strip(user_input) = <<>>
                                                    THEN <<"Hello">>
                                                    ELSE strip(user_input))>>)

\* a message with role r and text c is among those forwarded ahead of the input
Forwarded(r, c) ==
    \E j \in 1..(Len(messages) - 1) :
        messages[j].role = r /\ messages[j].parts = <<TextPart(c)>>

\* C12 (as claimed): with history enabled, each assistant message of the
\* session that is not blank is forwarded with role "model", each such user
\* message with role "user", and nothing is forwarded as "model" that the
\* session does not hold as an assistant message.
C12_RolesMappedToGateway ==
    (pc = "calling" /\ config.enable_history) =>
        /\ \A k \in 1..Len(History) :
              strip(History[k].content) # <<>> =>
                  /\ History[k].role = "assistant" => Forwarded("model", History[k].content)
                  /\ History[k].role = "user" => Forwarded("user", History[k].content)
        /\ \A j \in 1..Len(messages) :
              /\ messages[j].role \in {"user", "model"}
              /\ messages[j].role = "model" =>
                    \E k \in 1..Len(History) :
                        /\ History[k].role = "assistant"
                        /\ messages[j].parts = <<TextPart(History[k].content)>>

\* a part that carries something: text that is not empty, a tool call or a
\* tool result
NonEmptyPart(part) == part.kind = "text" => part.text # <<>>

\* C13 (as claimed): whenever the Gateway is about to be called, the first
\* time or after responses and tool results were appended, every message of
\* the working sequence has parts and one of them is not empty.
C13_NoEmptyMessageSent ==
    pc = "calling" =>
        \A k \in 1..Len(messages) :
            /\ messages[k].parts # <<>>
            /\ \E i \in 1..Len(messages[k].parts) : NonEmptyPart(messages[k].parts[i])

\* C14 (as claimed): a Gateway call that raises the terminal failure
\* "invalid request" ends the request at once, whatever attempts remain;
\* only the transient failure is followed by another attempt.
C14_TerminalFailureNotRetried ==
    [][GatewayRaises("invalid request") => pc' = "idle"]_vars

\* the step that takes a response with text and without tool calls
TextStep ==
    /\ pc = "calling"
    /\ trips' = trips + 1
    /\ response'.function_calls = <<>>
    /\ response'.text # <<>>

\* C15 (as claimed): the step that takes a response with text and without
\* tool calls ends the request: the text is returned, it is appended to the
\* current session as one assistant message, the Gateway is not called
\* again and successful_requests grows by one.
C15_FinalTextEndsRequest ==
    [][TextStep =>
          /\ pc' = "idle"
          /\ result' = response'.text
          /\ sessions'[current] = Append(sessions[current], Message("assistant", response'.text))
          /\ metrics'.successful_requests = metrics.successful_requests + 1]_vars

\* C16 (as claimed): with history enabled, once process_request has
\* returned (a failing write of the session file apart), the file of the
\* current session loads as a session with the messages the session has in
\* memory.
C16_SessionSavedAtEndOfRequest ==
    (Returned_ /\ config.enable_history /\ result # error_message(SaveError)) =>
        /\ load_session(store, current).found
        /\ load_session(store, current).messages = sessions[current]

\* the current session as it is when process_request reaches save_session,
\* seen from the step that takes the last response
BeforeSave ==
    IF response'.function_calls = <<>> /\ response'.text # <<>>
    THEN Append(sessions[current], Message("assistant", response'.text))
    ELSE sessions[current]

\* C19 (as claimed): when the save at the end of process_request fails,
\* the messages of the session in memory are afterwards what they were when
\* the save was attempted.
C19_FailedSaveLeavesSession ==
    [][(pc = "calling" /\ result' = error_message(SaveError)) =>
          sessions'[current] = BeforeSave]_vars

\* the session with id id as a manager holds it in memory
InMemory(id) == [found |-> TRUE, session_id |-> <<ToString(id)>>, messages |-> sessions[id]]

SavedOk(id) == Op("save_session", id, "ok")

\* C17: when a session has just been saved, a manager that does not hold it
\* in memory loads from its file a session with the same id and the same
\* messages: as many, with the same roles and the same contents, in the
\* same order.
C17_SaveLoadRoundTrip ==
    [][\A id \in 1..MaxSessions :
          (Op(op.name, op.id, op.outcome) = SavedOk(id) /\ LoadSession(id))
              => loaded' = InMemory(id)]_vars

C17_Witness ==
    /\ op.name = "load_session"
    /\ op.after = SavedOk(op.id)
    /\ loaded = InMemory(op.id)
    /\ Len(loaded.messages) = 2
    /\ loaded.messages[1].content = <<Backslash, Quote>>
    /\ loaded.messages[2] = Message("assistant", <<Quote>>)

\* C18: a save that succeeds leaves in the file the whole session as it is
\* in memory, whatever the file held, and leaves the other files alone; a
\* second save right after the first changes nothing in the store.
C18_SaveOverwritesIdempotent ==
    [][\A id \in 1..MaxSessions :
          SaveSession(id, "ok") =>
              /\ load_session(store', id) = InMemory(id)
              /\ \A j \in DOMAIN store : j # id => store'[j] = store[j]
              /\ Op(op.name, op.id, op.outcome) = SavedOk(id) => store' = store]_vars

C18_Witness ==
    /\ Op(op.name, op.id, op.outcome) = SavedOk(op.id)
    /\ \/ op.after = SavedOk(op.id)
       \/ op.after = Op("add_message", op.id, "") /\ ops = MaxOps
    /\ load_session(store, op.id) = InMemory(op.id)
    /\ sessions[op.id] # <<>>

IsPrefix(s, t) == Len(s) <= Len(t) /\ SubSeq(t, 1, Len(s)) = s

\* C20: no step removes a session from the manager's memory or changes the
\* messages it had: what a session held before a step is a prefix of what
\* it holds after it.
C20_MessagesAppendOnly ==
    [][\A id \in DOMAIN sessions :
          /\ id \in DOMAIN sessions'
          /\ IsPrefix(sessions[id], sessions'[id])]_vars

C20_Witness ==
    /\ Len(sessions) = 2
    /\ Len(sessions[1]) = 1
    /\ Len(sessions[2]) = 1
    /\ store[1].state = "saved"
    /\ load_session(store, 1) = InMemory(1)

\* C21: add_message(role, content) appends exactly one message, with the
\* role and content given, at the end of the current session and returns it;
\* with no current session it creates one and makes it current; every other
\* session is left as it was.
C21_AddMessageAppendsOne ==
    [][\A role \in ManagerRoles, content \in ManagerContents :
          AddMessage(role, content) =>
              LET before == IF current = 0 THEN <<>> ELSE sessions[current]
              IN  /\ current # 0 => current' = current
                  /\ current = 0 => current' \notin DOMAIN sessions
                  /\ DOMAIN sessions' = DOMAIN sessions \cup {current'}
                  /\ sessions'[current'] = Append(before, Message(role, content))
                  /\ returned'.message = <<sessions'[current'][Len(before) + 1]>>
                  /\ \A id \in DOMAIN sessions :
                         id # current' => sessions'[id] = sessions[id]]_vars

C21_Witness ==
    /\ op.name = "add_message"
    /\ op.after.name = "create_session"
    /\ Len(sessions) = 2
    /\ current = 2
    /\ Len(sessions[1]) = 1
    /\ returned.message = <<sessions[2][1]>>

Fold(c) == IF c = "A" THEN "a" ELSE c

\* some message of the session holds the query, letter case set aside
Matching(msgs, query) ==
    \E k \in 1..Len(msgs) :
        \E i \in 0..(Len(msgs[k].content) - Len(query)) :
            \A j \in 1..Len(query) : Fold(msgs[k].content[i + j]) = Fold(query[j])

MatchingIds(query) == {id \in DOMAIN sessions : Matching(sessions[id], query)}

\* C23: search_sessions(query, limit), limit at least 1, returns sessions of
\* the manager's memory that each hold the query in some message, letter case
\* set aside, no session twice, and as many of them as there are or as the
\* limit allows; no session is changed.
C23_SearchReturnsMatching ==
    [][\A query \in Queries, limit \in SearchLimits :
          (limit >= 1 /\ SearchSessions(query, limit)) =>
              LET found == returned'.sessions
              IN  /\ \A i \in 1..Len(found) : found[i] \in MatchingIds(query)
                  /\ \A i, j \in 1..Len(found) : found[i] = found[j] => i = j
                  /\ Len(found) = IF Cardinality(MatchingIds(query)) < limit
                                  THEN Cardinality(MatchingIds(query))
                                  ELSE limit
                  /\ sessions' = sessions
                  /\ current' = current]_vars

C23_Witness ==
    /\ op.name = "search_sessions"
    /\ returned.sessions = <<2>>
    /\ Len(sessions[1]) = 1
    /\ sessions[2][1].content = <<"A", "a">>

\* the seconds the first n requests of an Agent took, added up
RECURSIVE ElapsedSum(_)
ElapsedSum(n) == IF n = 0 THEN 0 ELSE ElapsedSum(n - 1) + elapsed_time([total_requests |-> n])

\* C24: when n >= 1 requests were served and every one of them succeeded,
\* average_response_time is the arithmetic mean of their n elapsed times;
\* requests of 2, 4 and 6 seconds leave an average of 4.
C24_AverageIsMean ==
    (pc = "idle" /\ metrics.failed_requests = 0 /\ metrics.successful_requests >= 1) =>
        metrics.average_response_time.num * metrics.successful_requests
            = metrics.average_response_time.den * ElapsedSum(metrics.successful_requests)

\* C22: create_session, and reset_session of the Agent, makes a session with
\* no message and an id no session had, registers it and makes it the
\* current one; every session there was is still found by its id with the
\* messages it had, and the Agent's metrics are left as they were.
C22_CreateSessionFresh ==
    [][ResetSession =>
          /\ returned'.sessions = <<current'>>
          /\ current' \notin DOMAIN sessions
          /\ DOMAIN sessions' = DOMAIN sessions \cup {current'}
          /\ sessions'[current'] = <<>>
          /\ \A id \in DOMAIN sessions :
                 /\ get_session(sessions', store', id).found
                 /\ get_session(sessions', store', id).messages = sessions[id]
          /\ metrics' = metrics]_vars

C22_Witness ==
    /\ op.name = "create_session"
    /\ metrics.total_requests = 1
    /\ metrics.total_tokens > 0
    /\ Len(sessions) = 2
    /\ Len(sessions[1]) = 2
    /\ sessions[2] = <<>>
    /\ current = 2

Counters == {"total_requests", "successful_requests", "failed_requests",
             "total_tokens", "function_calls"}

\* the request counters add up, the request in flight counted apart
Balanced(m, at) ==
    m.total_requests = m.successful_requests + m.failed_requests
                         + (IF at = "idle" THEN 0 ELSE 1)

\* C26: the counters of a new Agent are all 0; a process_request call adds 1
\* to total_requests when it starts and 1 to exactly one of
\* successful_requests and failed_requests when it returns, so that the
\* total is their sum whenever no request is in flight; no step makes a
\* counter smaller.
C26_CountersAddUp ==
    [][/\ metrics.total_requests = 0 => \A c \in Counters : metrics[c] = 0
       /\ Balanced(metrics, pc) /\ Balanced(metrics', pc')
       /\ \A c \in Counters : metrics'[c] >= metrics[c]
       /\ (pc = "idle" /\ pc' = "calling") =>
              /\ metrics'.total_requests = metrics.total_requests + 1
              /\ metrics'.successful_requests = metrics.successful_requests
              /\ metrics'.failed_requests = metrics.failed_requests
       /\ (pc = "calling" /\ pc' = "calling") =>
              /\ metrics'.total_requests = metrics.total_requests
              /\ metrics'.successful_requests = metrics.successful_requests
              /\ metrics'.failed_requests = metrics.failed_requests
       /\ (pc = "calling" /\ pc' = "idle") =>
              /\ metrics'.total_requests = metrics.total_requests
              /\ metrics'.successful_requests + metrics'.failed_requests
                   = metrics.successful_requests + metrics.failed_requests + 1]_vars

C26_Witness ==
    /\ pc = "idle"
    /\ metrics.total_requests = 3
    /\ metrics.successful_requests = 2
    /\ metrics.failed_requests = 1
    /\ result = error_message(SaveError)

\* a token count, a missing one taken as zero
OrZero(n) == IF n = None THEN 0 ELSE n

\* C25: a Gateway response that reports usage adds its prompt and candidates
\* token counts to total_tokens, a missing count adding nothing, and the
\* call is not counted as a failed attempt.
C25_TokensAddedNoneAsZero ==
    [][\A resp \in Responses, save \in SaveOutcomes :
          (resp.usage_metadata.present /\ GatewayResponds(resp, save)) =>
              /\ fails' = 0
              /\ metrics'.total_tokens =
                     metrics.total_tokens
                       + OrZero(resp.usage_metadata.prompt_token_count)
                       + OrZero(resp.usage_metadata.candidates_token_count)]_vars

\* C27: what get_metrics returned reads the same after the steps of later
\* requests as before them, and a caller writing into it leaves the Agent's
\* metrics as they were.
C27_MetricsSnapshot ==
    [][/\ (snapshot.held # "nothing" /\ (pc # "idle" \/ pc' # "idle")) =>
              held_value(snapshot', metrics') = held_value(snapshot, metrics)
       /\ \A key \in CallerKeys : CallerWrites(key) => metrics' = metrics]_vars

\* a Gateway attempt was treated as failed and the next attempt is to come
Retried == pc = "calling" /\ pc' = "calling" /\ fails' = fails + 1

\* C29: when an attempt is treated as failed and retried, the retry is given
\* the working sequence the failed attempt was given, the session holds the
\* messages it held, and function_calls has the value it had: no tool was
\* dispatched and counted in between.
C29_RetryWithoutSideEffects ==
    [][Retried =>
          /\ messages' = messages
          /\ sessions' = sessions
          /\ metrics'.function_calls = metrics.function_calls]_vars

\* C30: a failed attempt that is followed by a further attempt sleeps
\* retry_delay times the number of attempts that failed in a row since the
\* last response, whatever tool rounds came before; a failed attempt that
\* ends the request does not sleep.
C30_BackoffLinearInFailures ==
    [][(pc = "calling" /\ fails' = fails + 1) =>
          slept' = IF pc' = "calling" THEN retry_delay * fails' ELSE 0]_vars

\* a response with tool calls was taken and the Gateway is to be called again
FedBack == pc = "calling" /\ pc' = "calling" /\ trips' = trips + 1
               /\ response'.function_calls # <<>>

C31_RequestTerminates == (pc = "calling") ~> (pc = "idle")

C31_Witness ==
    /\ pc = "idle"
    /\ result = Fallback
    /\ config.max_iterations * config.retry_attempts = MaxGatewayCalls
    /\ gatewayCalls = MaxGatewayCalls
    /\ allTools

\* the messages of the session that are among its ContextWindow most recent
Recent == {k \in 1..Len(sessions[current]) : k > Len(sessions[current]) - ContextWindow}

\* the j-th forwarded message is the k-th message of the session
Drawn(j, k) == messages[j].parts = <<TextPart(sessions[current][k].content)>>

\* C32: of the sequence handed to the first Gateway call, all but the final
\* input are messages among the 10 most recent of the current session, in
\* the order the session holds them, and there are at most 10 of them.
C32_ContextWindowOfTen ==
    (pc = "calling") =>
        /\ Len(messages) <= ContextWindow + 1
        /\ \A j \in 1..(Len(messages) - 1) :
              /\ \E k \in Recent : Drawn(j, k)
              /\ \A k \in 1..Len(sessions[current]) : Drawn(j, k) => k \in Recent
              /\ \A i \in 1..(j - 1) :
                    \E ki, kj \in Recent : ki < kj /\ Drawn(i, ki) /\ Drawn(j, kj)

C32_Witness ==
    /\ pc = "calling"
    /\ config.enable_history
    /\ Len(sessions[current]) = 13
    /\ Len(messages) = ContextWindow + 1
    /\ Drawn(1, 4)
    /\ Drawn(9, 12)

\* C33: search_sessions(query, limit) returns at most limit sessions, for
\* every limit from 0 on.
C33_SearchWithinLimit ==
    [][\A query \in Queries, limit \in SearchLimits :
          SearchSessions(query, limit) => Len(returned'.sessions) <= limit]_vars

\* C34: with history enabled, the sequence handed to the first Gateway call
\* ends with a user message, and the message the request has just appended
\* to the session is not among the messages ahead of it.
C34_InputForwardedOnce ==
    (pc = "calling" /\ config.enable_history) =>
        /\ Last(messages).role = "user"
        /\ \A j \in 1..(Len(messages) - 1) : ~Drawn(j, Len(sessions[current]))

\* C35: when a request has returned, the session holds two messages more
\* than before it: the user input, then one assistant message whose content
\* is the string the request returned.
C35_TwoMessagesPerRequest ==
    Returned_ =>
        LET n == Len(sessions[current])
        IN  /\ n = 2 * metrics.total_requests
            /\ sessions[current][n - 1] = Message("user", user_input)
            /\ sessions[current][n] = Message("assistant", result)

\* C36: whenever the manager has a current session, the sessions map holds
\* that session under its id.
C36_CurrentIsRegistered == current # 0 => current \in DOMAIN Registered

\* what get_metrics gives the caller of the first Agent now
Reported ==
    held_value(get_metrics(impl, metrics,
                           get_metrics_summary(logger_errors, logger_function_calls)),
               metrics)

\* C37: a request served by another Agent of the process leaves what
\* get_metrics of the first Agent reports as it was.
C37_MetricsPerAgent ==
    [][\A raises \in BOOLEAN, resp \in MetricResponses, save \in MetricSaves :
           OtherAgentRequest(raises, resp, save) => Reported' = Reported]_vars


\* C38: the Config a caller holds meets the constraints of _validate_config:
\* max_iterations >= 1, 0 <= temperature <= 2, timeout >= 1.
C38_ConfigValid == _validate_config(config)

====
